---- MODULE Spec2Model ----
(***************************************************************************)
(* A model of whoistop.py: the enrichment pipeline that normalises a list  *)
(* of domains, looks each one up in the registry (RDAP) and in the tax     *)
(* registry (ReceitaWS), and appends one row per enriched domain to a CSV  *)
(* table, with fixed sleeps between the steps.                             *)
(*                                                                         *)
(* Python strings are sequences of one-character strings, so that the      *)
(* string functions of the program (strip, lower, re.sub, split, the CSV   *)
(* round trip of pandas) are computed and not assumed.                     *)
(***************************************************************************)
EXTENDS Integers, Sequences, FiniteSets, TLC

VARIABLES
    domains,              \* main: the first column of dominios.csv (raw strings)
    cleaned_domains,      \* main: clean_domains(domains)
    dominios_existentes,  \* main: the Domain column as loaded at the start of the run
    csv_file,             \* informacoes_empresa.csv: NoFile, or its rows as written text
    idx,                  \* position of the for loop in cleaned_domains
    pc,                   \* the statement main is at
    CONTADOR_SUCESSO,     \* the global counter of successful writes
    now,                  \* time.time() - inicio_processamento, in seconds
    rdap_resultado,       \* main: result of consulta_rdap
    key_info,             \* main: result of extract_key_info
    receita_info,         \* main: result of consulta_cnpj
    trace,                \* what the current iteration did so far (calls, sleeps, the save)
    csv_at_start          \* informacoes_empresa.csv as the run found it

vars == <<domains, cleaned_domains, dominios_existentes, csv_file, idx, pc,
          CONTADOR_SUCESSO, now, rdap_resultado, key_info, receita_info, trace,
          csv_at_start>>

(***************************************************************************)
(* Python string primitives                                                *)
(***************************************************************************)
UpperCase == <<"A","B","C","D","E","F","G","H","I","J","K","L","M",
               "N","O","P","Q","R","S","T","U","V","W","X","Y","Z">>
LowerCase == <<"a","b","c","d","e","f","g","h","i","j","k","l","m",
               "n","o","p","q","r","s","t","u","v","w","x","y","z">>
Whitespace == {" ", "\t", "\n", "\r"}
Digits == <<"0","1","2","3","4","5","6","7","8","9">>

IsDigit(c) == \E k \in 1..Len(Digits) : Digits[k] = c

LowerChar(c) ==
    IF \E k \in 1..Len(UpperCase) : UpperCase[k] = c
    THEN LowerCase[CHOOSE k \in 1..Len(UpperCase) : UpperCase[k] = c]
    ELSE c

\* str.lower()
lower(s) == [i \in 1..Len(s) |-> LowerChar(s[i])]

\* str.strip(): leading and trailing whitespace removed
strip(s) ==
    LET keep == {i \in 1..Len(s) : s[i] \notin Whitespace}
    IN  IF keep = {} THEN <<>>
        ELSE LET lo == CHOOSE i \in keep : \A j \in keep : i <= j
                 hi == CHOOSE i \in keep : \A j \in keep : j <= i
             IN  SubSeq(s, lo, hi)

\* str.rstrip('/'): every trailing slash removed
rstrip_slash(s) ==
    LET keep == {i \in 1..Len(s) : s[i] # "/"}
    IN  IF keep = {} THEN <<>>
        ELSE SubSeq(s, 1, CHOOSE i \in keep : \A j \in keep : j <= i)

startswith(s, p) == Len(s) >= Len(p) /\ SubSeq(s, 1, Len(p)) = p
endswith(s, p) == Len(s) >= Len(p) /\ SubSeq(s, Len(s) - Len(p) + 1, Len(s)) = p

RemovePrefix(s, p) == SubSeq(s, Len(p) + 1, Len(s))

\* re.sub(r'^https?://', '', s)
sub_scheme(s) ==
    IF startswith(s, <<"h","t","t","p",":","/","/">>)
    THEN RemovePrefix(s, <<"h","t","t","p",":","/","/">>)
    ELSE IF startswith(s, <<"h","t","t","p","s",":","/","/">>)
         THEN RemovePrefix(s, <<"h","t","t","p","s",":","/","/">>)
         ELSE s

\* re.sub(r'^www\.', '', s)
sub_www(s) ==
    IF startswith(s, <<"w","w","w",".">>) THEN RemovePrefix(s, <<"w","w","w",".">>) ELSE s

\* urlparse('http://' + s).netloc: what precedes the first '/', '?' or '#'
netloc(s) ==
    LET stop == {i \in 1..Len(s) : s[i] \in {"/", "?", "#"}}
    IN  IF stop = {} THEN s
        ELSE SubSeq(s, 1, (CHOOSE i \in stop : \A j \in stop : i <= j) - 1)

\* str.split('.')
RECURSIVE split_dot(_)
split_dot(s) ==
    LET dots == {i \in 1..Len(s) : s[i] = "."}
    IN  IF dots = {} THEN <<s>>
        ELSE LET d == CHOOSE i \in dots : \A j \in dots : i <= j
             IN  <<SubSeq(s, 1, d - 1)>> \o split_dot(SubSeq(s, d + 1, Len(s)))

\* '.'.join(parts)
RECURSIVE join_dot(_)
join_dot(parts) ==
    IF Len(parts) = 0 THEN <<>>
    ELSE IF Len(parts) = 1 THEN parts[1]
         ELSE parts[1] \o <<".">> \o join_dot(Tail(parts))

\* Mutant: the slice keeps the last four parts.
Last4(parts) == SubSeq(parts, IF Len(parts) > 4 THEN Len(parts) - 3 ELSE 1, Len(parts))

\* parts[-3:]
Last3(parts) == SubSeq(parts, IF Len(parts) > 3 THEN Len(parts) - 2 ELSE 1, Len(parts))

(***************************************************************************)
(* clean_domains                                                          *)
(***************************************************************************)
\* The body of the for loop of clean_domains up to the test of the suffix.
clean_one(raw) ==
    LET d1 == lower(strip(raw))
        d2 == sub_scheme(d1)
        d3 == rstrip_slash(d2)
        d4 == sub_www(d3)
        domain_parts == split_dot(netloc(d4))
    IN  IF Len(domain_parts) > 2
        THEN join_dot(Last3(domain_parts))
        ELSE join_dot(domain_parts)

has_br_suffix(domain) == endswith(domain, <<".","b","r">>)

RECURSIVE clean_domains(_)
clean_domains(raws) ==
    IF raws = <<>> THEN <<>>
    ELSE (IF has_br_suffix(clean_one(Head(raws))) THEN <<clean_one(Head(raws))>> ELSE <<>>)
         \o clean_domains(Tail(raws))

(***************************************************************************)
(* Python values                                                           *)
(***************************************************************************)
\* None: a value no string equals.
None == <<"<None>">>

\* The truth value of a string or None: None and '' are false.
Truthy(x) == x # None /\ x # <<>>

NotAvailable == <<"N","o","t"," ","a","v","a","i","l","a","b","l","e">>
ErrorText == <<"E","r","r","o","r">>

\* dict.get(k, default)
get(d, k, default) == IF k \in DOMAIN d THEN d[k] ELSE default

\* 'error' in d
HasError(d) == "error" \in DOMAIN d

(***************************************************************************)
(* extract_key_info                                                        *)
(* A walk that carries the three locals and the exception raised, if any.  *)
(***************************************************************************)
NoRaise == "none"

\* entity.get('vcardArray', [[]])[1]: the default [[]] has no element [1].
HasCard(entity) == "vcardArray" \in DOMAIN entity /\ Len(entity.vcardArray) > 1

\* The scan of the identifiers that keeps the first cpf or cnpj it meets.
RECURSIVE ScanPublicIdsFirst(_, _)
ScanPublicIdsFirst(ids, acc) ==
    IF ids = <<>> \/ acc.raised # NoRaise THEN acc
    ELSE LET public_id == Head(ids)
         IN  IF "type" \notin DOMAIN public_id
             THEN [acc EXCEPT !.raised = "KeyError"]
             ELSE IF public_id.type \in {"cpf", "cnpj"} /\ acc.cpf_cnpj = None
                  THEN IF "identifier" \notin DOMAIN public_id
                       THEN [acc EXCEPT !.raised = "KeyError"]
                       ELSE ScanPublicIdsFirst(Tail(ids),
                                [acc EXCEPT !.cpf_cnpj = public_id.identifier])
                  ELSE ScanPublicIdsFirst(Tail(ids), acc)

\* for public_id in entity.get('publicIds', []): the last cpf or cnpj wins
RECURSIVE ScanPublicIds(_, _)
ScanPublicIds(ids, acc) ==
    IF ids = <<>> \/ acc.raised # NoRaise THEN acc
    ELSE LET public_id == Head(ids)
         IN  IF "type" \notin DOMAIN public_id
             THEN [acc EXCEPT !.raised = "KeyError"]
             ELSE IF public_id.type \in {"cpf", "cnpj"}
                  THEN IF "identifier" \notin DOMAIN public_id
                       THEN [acc EXCEPT !.raised = "KeyError"]
                       ELSE ScanPublicIds(Tail(ids),
                                          [acc EXCEPT !.cpf_cnpj = public_id.identifier])
                  ELSE ScanPublicIds(Tail(ids), acc)

\* for item in vcard: if item[0] == 'email': email_rdap = item[3]; break
RECURSIVE ScanCard(_, _)
ScanCard(vcard, acc) ==
    IF vcard = <<>> \/ acc.raised # NoRaise THEN acc
    ELSE LET item == Head(vcard)
         IN  IF Len(item) = 0
             THEN [acc EXCEPT !.raised = "IndexError"]
             ELSE IF item[1] = "email"
                  THEN IF Len(item) < 4
                       THEN [acc EXCEPT !.raised = "IndexError"]
                       ELSE [acc EXCEPT !.email_rdap = item[4]]
                  ELSE ScanCard(Tail(vcard), acc)

\* for sub_entity in entity.get('entities', [])
RECURSIVE ScanSubEntities(_, _)
ScanSubEntities(subs, acc) ==
    IF subs = <<>> \/ acc.raised # NoRaise THEN acc
    ELSE IF ~HasCard(Head(subs))
         THEN [acc EXCEPT !.raised = "IndexError"]
         ELSE ScanSubEntities(Tail(subs), ScanCard(Head(subs).vcardArray[2], acc))

\* if 'registrant' in entity.get('roles', []): name and tax identifier
ScanRegistrant(entity, acc) ==
    IF \E i \in 1..Len(get(entity, "roles", <<>>)) : get(entity, "roles", <<>>)[i] = "registrant"
    THEN IF ~HasCard(entity)
         THEN [acc EXCEPT !.raised = "IndexError"]
         ELSE LET vcard == entity.vcardArray[2]
                  name  == IF Len(vcard) > 1 /\ Len(vcard[2]) > 3
                           THEN vcard[2][4] ELSE NotAvailable
              IN  ScanPublicIds(get(entity, "publicIds", <<>>), [acc EXCEPT !.name = name])
    ELSE acc

\* for entity in rdap_info.get('entities', [])
RECURSIVE ScanEntities(_, _)
ScanEntities(entities, acc) ==
    IF entities = <<>> \/ acc.raised # NoRaise THEN acc
    ELSE LET a1 == ScanRegistrant(Head(entities), acc)
             a2 == IF a1.raised # NoRaise THEN a1
                   ELSE ScanSubEntities(get(Head(entities), "entities", <<>>), a1)
         IN  ScanEntities(Tail(entities), a2)

\* Lines 52-71: the scan of the entities and the defaults of the return statement.
extract_fields(rdap_info) ==
    LET acc == ScanEntities(get(rdap_info, "entities", <<>>),
                            [email_rdap |-> None, cpf_cnpj |-> None, name |-> None,
                             raised |-> NoRaise])
    IN  [email_rdap |-> IF Truthy(acc.email_rdap) THEN acc.email_rdap ELSE NotAvailable,
         cpf_cnpj   |-> IF Truthy(acc.cpf_cnpj) THEN acc.cpf_cnpj ELSE NotAvailable,
         name       |-> IF Truthy(acc.name) THEN acc.name ELSE NotAvailable,
         raised     |-> acc.raised]

\* The extractor without the test of line 45.
extract_key_info_untested(rdap_info) == extract_fields(rdap_info)

\* The result of extract_key_info; raised # NoRaise when it ends in an exception.
extract_key_info(rdap_info) ==
    IF HasError(rdap_info)
    THEN [email_rdap |-> ErrorText, cpf_cnpj |-> ErrorText, name |-> ErrorText,
          raised |-> NoRaise]
    ELSE extract_fields(rdap_info)

(***************************************************************************)
(* sanitize_cnpj and format_cnpj_info                                      *)
(***************************************************************************)
\* re.sub(r'\D', '', cnpj)
sanitize_cnpj(cnpj) == SelectSeq(cnpj, IsDigit)

InfoKeys == {"nome", "fantasia", "logradouro", "numero", "bairro", "municipio", "uf",
             "cep", "telefone", "situacao", "capital_social", "email"}

format_cnpj_info(info) ==
    [k \in InfoKeys \cup {"qsa"} |->
        IF k = "qsa" THEN get(info, "qsa", <<>>) ELSE get(info, k, NotAvailable)]

(***************************************************************************)
(* The CSV table as pandas reads and writes it                             *)
(* A file is its data rows, each a function from the header's columns to   *)
(* the text of the cell. read_csv infers one dtype per column; to_csv      *)
(* formats every value of the frame anew. Numbers are decimal literals     *)
(* without sign or exponent; the boolean dtype is not modelled.            *)
(***************************************************************************)
Columns == <<"Domain", "Registration Name", "Trade Name", "Full Address", "CEP", "Phone",
             "Status", "Social Capital", "Partner 1 Name", "Partner 1 Qualification",
             "Partner 2 Name", "Partner 2 Qualification", "RDAP Email", "ReceitaWS Email">>
ColumnSet == {Columns[i] : i \in 1..Len(Columns)}

NoFile == [exists |-> FALSE, rows |-> <<>>]

\* Texts read_csv takes for a missing value (pandas' default na_values, in part).
NAValues == {<<>>, <<"N","A">>, <<"N","/","A">>, <<"n","/","a">>, <<"N","a","N">>,
             <<"n","a","n">>, <<"n","u","l","l">>, <<"N","U","L","L">>}

IsIntText(s) == Len(s) > 0 /\ \A i \in 1..Len(s) : IsDigit(s[i])

IsFloatText(s) ==
    /\ Cardinality({i \in 1..Len(s) : s[i] = "."}) = 1
    /\ \A i \in 1..Len(s) : s[i] = "." \/ IsDigit(s[i])
    /\ Len(s) > 1

DigitValue(c) == (CHOOSE k \in 1..Len(Digits) : Digits[k] = c) - 1

\* int(digits), 0 for no digit
RECURSIVE ParseNat(_)
ParseNat(s) ==
    IF s = <<>> THEN 0
    ELSE 10 * ParseNat(SubSeq(s, 1, Len(s) - 1)) + DigitValue(s[Len(s)])

\* str(n)
RECURSIVE FormatNat(_)
FormatNat(n) ==
    IF n < 10 THEN <<Digits[n + 1]>>
    ELSE FormatNat(n \div 10) \o <<Digits[(n % 10) + 1]>>

\* The fraction digits of a float: trailing zeros carry no value.
RECURSIVE StripTrailingZeros(_)
StripTrailingZeros(s) ==
    IF s # <<>> /\ s[Len(s)] = "0" THEN StripTrailingZeros(SubSeq(s, 1, Len(s) - 1)) ELSE s

\* Values of a frame: t is "str", "nan", "int" or "float".
StrCell(s) == [t |-> "str", v |-> s, ip |-> 0, fp |-> <<>>]
NaNCell == [t |-> "nan", v |-> <<>>, ip |-> 0, fp |-> <<>>]
IntCell(n) == [t |-> "int", v |-> <<>>, ip |-> n, fp |-> <<>>]
FloatCell(n, f) == [t |-> "float", v |-> <<>>, ip |-> n, fp |-> f]

\* The dtype read_csv infers for a column from the texts of its cells.
ColumnType(texts) ==
    LET present == {i \in 1..Len(texts) : texts[i] \notin NAValues}
    IN  IF present = 1..Len(texts) /\ present # {} /\ \A i \in present : IsIntText(texts[i])
        THEN "int64"
        ELSE IF \A i \in present : IsIntText(texts[i]) \/ IsFloatText(texts[i])
             THEN "float64"
             ELSE "object"

ParseCell(text, dtype) ==
    IF text \in NAValues THEN NaNCell
    ELSE IF dtype = "int64" THEN IntCell(ParseNat(text))
    ELSE IF dtype = "float64"
         THEN LET dot == IF IsFloatText(text)
                         THEN CHOOSE i \in 1..Len(text) : text[i] = "."
                         ELSE Len(text) + 1
              IN  FloatCell(ParseNat(SubSeq(text, 1, dot - 1)),
                            StripTrailingZeros(SubSeq(text, dot + 1, Len(text))))
    ELSE StrCell(text)

\* pd.read_csv(filename) of an existing file
read_csv(file) ==
    [i \in 1..Len(file.rows) |->
        [c \in ColumnSet |->
            ParseCell(file.rows[i][c],
                      ColumnType([j \in 1..Len(file.rows) |-> file.rows[j][c]]))]]

\* What to_csv writes for one value: NaN as the empty text, a float by its repr.
FormatCell(cell) ==
    IF cell.t = "str" THEN cell.v
    ELSE IF cell.t = "nan" THEN <<>>
    ELSE IF cell.t = "int" THEN FormatNat(cell.ip)
    ELSE FormatNat(cell.ip) \o <<".">> \o (IF cell.fp = <<>> THEN <<"0">> ELSE cell.fp)

\* df.to_csv(filename, index=False)
to_csv(df) ==
    [exists |-> TRUE,
     rows   |-> [i \in 1..Len(df) |-> [c \in ColumnSet |-> FormatCell(df[i][c])]]]

\* try: pd.read_csv(filename) except FileNotFoundError: an empty frame
load_frame(file) == IF file.exists THEN read_csv(file) ELSE <<>>

\* Mutant: the duplicate check of save_to_csv never finds the domain.
domain_in_frame_never(dominio, df) == FALSE

\* dominio in df['Domain'].values
domain_in_frame(dominio, df) == \E i \in 1..Len(df) : df[i]["Domain"] = StrCell(dominio)

(***************************************************************************)
(* save_to_csv                                                             *)
(***************************************************************************)
CommaSpace == <<",", " ">>

\* The partner fields all read from the first entry of the list.
partner_field_first(qsa, n, key) ==
    IF Len(qsa) > n THEN get(qsa[1], key, NotAvailable) ELSE NotAvailable

\* qsa[n].get(key, 'Not available') if len(qsa) > n else 'Not available' (n from 0)
partner_field(qsa, n, key) ==
    IF Len(qsa) > n THEN get(qsa[n + 1], key, NotAvailable) ELSE NotAvailable

new_row(dominio, rdap_info, cnpj_info) ==
    LET qsa == get(cnpj_info, "qsa", <<>>)
    IN  [c \in ColumnSet |->
          CASE c = "Domain" -> dominio
            [] c = "Registration Name" -> get(cnpj_info, "nome", NotAvailable)
            [] c = "Trade Name" -> get(cnpj_info, "fantasia", NotAvailable)
            [] c = "Full Address" ->
                   get(cnpj_info, "logradouro", NotAvailable) \o CommaSpace
                   \o get(cnpj_info, "numero", NotAvailable) \o CommaSpace
                   \o get(cnpj_info, "bairro", NotAvailable) \o CommaSpace
                   \o get(cnpj_info, "municipio", NotAvailable) \o CommaSpace
                   \o get(cnpj_info, "uf", NotAvailable)
            [] c = "CEP" -> get(cnpj_info, "cep", NotAvailable)
            [] c = "Phone" -> get(cnpj_info, "telefone", NotAvailable)
            [] c = "Status" -> get(cnpj_info, "situacao", NotAvailable)
            [] c = "Social Capital" -> get(cnpj_info, "capital_social", NotAvailable)
            [] c = "Partner 1 Name" -> partner_field(qsa, 0, "nome")
            [] c = "Partner 1 Qualification" -> partner_field(qsa, 0, "qual")
            [] c = "Partner 2 Name" -> partner_field(qsa, 1, "nome")
            [] c = "Partner 2 Qualification" -> partner_field(qsa, 1, "qual")
            [] c = "RDAP Email" -> get(rdap_info, "email_rdap", NotAvailable)
            [] OTHER -> get(cnpj_info, "email", NotAvailable)]

\* pd.concat([df, pd.DataFrame([new_row])], ignore_index=True)
concat_row(df, row) == Append(df, [c \in ColumnSet |-> StrCell(row[c])])

\* The value returned (written) and the file as save_to_csv leaves it.
save_to_csv(dominio, rdap_info, cnpj_info, file) ==
    LET df == load_frame(file)
    IN  IF domain_in_frame(dominio, df)
        THEN [written |-> FALSE, file |-> file]
        ELSE [written |-> TRUE,
              file    |-> to_csv(concat_row(df, new_row(dominio, rdap_info, cnpj_info)))]

(***************************************************************************)
(* Configuration of the program                                            *)
(***************************************************************************)
ATRASO_BASE == 60
ATRASO_PERSONALIZADO == 5
PostCallSleep == 10
CnpjLength == 14
PauseInterval == 5

(***************************************************************************)
(* The environment: the input list, the two services, the time calls take  *)
(***************************************************************************)
MaxDomains == 7
LongCall == 45

\* Rows of dominios.csv the input list is drawn from, in order (repeating).
RawPool == <<
    <<"a",".","c","o","m",".","b","r">>,
    <<"H","T","T","P",":","/","/","W","W","W",".","B",".","C","O","M",".","B","R","/">>,
    <<" ","c",".","b","r">>,
    <<"x",".","c","o","m">>,
    <<"h","t","t","p","s",":","/","/","d",".","b","r","/","p">>,
    <<"s","u","b",".","e",".","c","o","m",".","b","r">>,
    <<"w","w","w",".","a",".","c","o","m",".","b","r">>,
    <<"f",".","b","r">> >>

InputList(n) == [i \in 1..n |-> RawPool[((i - 1) % Len(RawPool)) + 1]]

CallTimes == {0, LongCall}

VersionRow == <<"version", "{}", "text", <<"4",".","0">>>>
FnRow(name) == <<"fn", "{}", "text", name>>
EmailRow(email) == <<"email", "{}", "text", email>>
Card(rows) == <<"vcard", rows>>

TechContact == [roles |-> <<"technical">>,
                vcardArray |-> Card(<<VersionRow, FnRow(<<"T","e","c">>), EmailRow(<<"t","@","x",".","b","r">>)>>)]

Registrant(kind, identifier) ==
    [roles |-> <<"registrant">>,
     vcardArray |-> Card(<<VersionRow, FnRow(<<"A","c","m","e">>)>>),
     publicIds |-> <<[type |-> kind, identifier |-> identifier]>>,
     entities |-> <<TechContact>>]

CnpjText == <<"1","2",".","3","4","5",".","6","7","8","/","0","0","0","1","-","9","9">>
CpfText == <<"1","2","3",".","4","5","6",".","7","8","9","-","0","9">>

RdapCompany == [handle |-> "company", entities |-> <<Registrant("cnpj", CnpjText)>>]
RdapPerson == [handle |-> "person", entities |-> <<Registrant("cpf", CpfText)>>]
RdapNoEntities == [handle |-> "bare", entities |-> <<>>]
\* A registrant entity that carries no contact card.
RdapNoCard == [handle |-> "nocard",
               entities |-> <<[roles |-> <<"registrant">>,
                               publicIds |-> <<[type |-> "cnpj", identifier |-> CnpjText]>>]>>]
RdapError == [error |-> "HTTPError"]

RdapOutcomes == {RdapError, RdapCompany, RdapPerson, RdapNoEntities, RdapNoCard}

Partner(nome, qual) == [nome |-> nome, qual |-> qual]

ReceitaFull ==
    [nome |-> <<"A","C","M","E"," ","S","A">>, fantasia |-> <<>>, logradouro |-> <<"R","U","A"," ","A">>, numero |-> <<"1","0">>,
     bairro |-> <<"S","E">>, municipio |-> <<"S","A","O"," ","P","A","U","L","O">>, uf |-> <<"S","P">>, cep |-> <<"0","1",".","3","1","0","-","1","0","0">>,
     telefone |-> <<"(","1","1",")"," ","3","3","3","3">>, situacao |-> <<"A","T","I","V","A">>, capital_social |-> <<"5","0","0","0",".","0","0">>,
     email |-> <<"c","@","x",".","b","r">>,
     qsa |-> <<Partner(<<"A","N","A">>, <<"S","o","c","i","o">>), Partner(<<"B","I","A">>, <<"D","i","r","e","t","o","r">>), Partner(<<"C","A","I","O">>, <<"S","o","c","i","o">>)>>]
ReceitaSparse == [nome |-> <<"B","E","T","A"," ","M","E">>, qsa |-> <<[nome |-> <<"A","N","A">>]>>]
ReceitaError == [error |-> "HTTPError"]

ReceitaOutcomes == {ReceitaError, ReceitaFull, ReceitaSparse}

\* Files an earlier run of the program leaves behind.
KeyInfoCompany == extract_key_info(RdapCompany)
FileA == save_to_csv(<<"a",".","c","o","m",".","b","r">>, KeyInfoCompany, format_cnpj_info(ReceitaFull), NoFile).file
FileC == save_to_csv(<<"c",".","b","r">>, KeyInfoCompany, format_cnpj_info(ReceitaSparse), NoFile).file
FileCA == save_to_csv(<<"a",".","c","o","m",".","b","r">>, KeyInfoCompany, format_cnpj_info(ReceitaFull), FileC).file
FileCAB == save_to_csv(<<"b",".","c","o","m",".","b","r">>, KeyInfoCompany, format_cnpj_info(ReceitaFull), FileCA).file

InitialFiles == {NoFile, FileA, FileCAB}

Unset == [unset |-> TRUE]

(***************************************************************************)
(* main                                                                    *)
(***************************************************************************)
Event(ev, n) == [ev |-> ev, n |-> n]

Init ==
    /\ domains \in {InputList(n) : n \in 0..MaxDomains}
    /\ csv_file \in InitialFiles
    /\ cleaned_domains = <<>>
    /\ dominios_existentes = {}
    /\ idx = 0
    /\ pc = "start"
    /\ CONTADOR_SUCESSO = 0
    /\ now = 0
    /\ rdap_resultado = Unset
    /\ key_info = Unset
    /\ receita_info = Unset
    /\ trace = <<>>
    /\ csv_at_start = csv_file

\* Mutant: the table is not loaded, the set of stored domains starts empty.
existing_domains_empty(file) == {}

\* set(df_existente['Domain']), or set() when the file does not exist
existing_domains(file) ==
    LET df == load_frame(file) IN {df[i]["Domain"] : i \in 1..Len(df)}

\* Lines 153-171: read the input list, clean it, load the domains already stored.
ReadInputs ==
    /\ pc = "start"
    /\ cleaned_domains' = clean_domains(domains)
    /\ dominios_existentes' = existing_domains(csv_file)
    /\ idx' = 1
    /\ pc' = "loop"
    /\ UNCHANGED <<csv_at_start, domains, csv_file, CONTADOR_SUCESSO, now, rdap_resultado, key_info,
                   receita_info, trace>>

\* Lines 174-176: the domain was in the table when the run started.
Skip ==
    /\ pc = "loop"
    /\ idx <= Len(cleaned_domains)
    /\ StrCell(cleaned_domains[idx]) \in dominios_existentes
    /\ idx' = idx + 1
    /\ trace' = <<Event("skip", 0)>>
    /\ UNCHANGED <<csv_at_start, domains, cleaned_domains, dominios_existentes, csv_file, pc,
                   CONTADOR_SUCESSO, now, rdap_resultado, key_info, receita_info>>

\* Line 178: inicio_processamento = time.time()
Begin ==
    /\ pc = "loop"
    /\ idx <= Len(cleaned_domains)
    /\ StrCell(cleaned_domains[idx]) \notin dominios_existentes
    /\ now' = 0
    /\ trace' = <<>>
    /\ pc' = "rdap"
    /\ UNCHANGED <<csv_at_start, domains, cleaned_domains, dominios_existentes, csv_file, idx,
                   CONTADOR_SUCESSO, rdap_resultado, key_info, receita_info>>

\* Line 181: consulta_rdap returns the payload, or the error-tagged result.
ConsultaRdap ==
    /\ pc = "rdap"
    /\ \E r \in RdapOutcomes, dur \in CallTimes :
          /\ rdap_resultado' = r
          /\ now' = now + dur
          /\ trace' = Append(trace, Event("rdap", dur))
    /\ pc' = "sleep_rdap"
    /\ UNCHANGED <<csv_at_start, domains, cleaned_domains, dominios_existentes, csv_file, idx,
                   CONTADOR_SUCESSO, key_info, receita_info>>

\* Mutant: the delay is slept only after a registry lookup that succeeded.
SleepRdapOnSuccessOnly ==
    /\ pc = "sleep_rdap"
    /\ IF HasError(rdap_resultado)
       THEN UNCHANGED <<now, trace>>
       ELSE /\ now' = now + PostCallSleep
            /\ trace' = Append(trace, Event("sleep", PostCallSleep))
    /\ pc' = IF HasError(rdap_resultado) THEN "floor" ELSE "extract"
    /\ UNCHANGED <<csv_at_start, domains, cleaned_domains, dominios_existentes, csv_file, idx,
                   CONTADOR_SUCESSO, rdap_resultado, key_info, receita_info>>

\* Lines 182-184 and 206-207: time.sleep(10), then the test of the result.
SleepRdap ==
    /\ pc = "sleep_rdap"
    /\ now' = now + PostCallSleep
    /\ trace' = Append(trace, Event("sleep", PostCallSleep))
    /\ pc' = IF HasError(rdap_resultado) THEN "floor" ELSE "extract"
    /\ UNCHANGED <<csv_at_start, domains, cleaned_domains, dominios_existentes, csv_file, idx,
                   CONTADOR_SUCESSO, rdap_resultado, key_info, receita_info>>

\* Line 185: extract_key_info; an exception it raises ends main.
Extract ==
    /\ pc = "extract"
    /\ key_info' = extract_key_info(rdap_resultado)
    /\ pc' = IF key_info'.raised # NoRaise THEN "crashed" ELSE "gate"
    /\ trace' = Append(trace, Event("extract", 0))
    /\ UNCHANGED <<csv_at_start, domains, cleaned_domains, dominios_existentes, csv_file, idx,
                   CONTADOR_SUCESSO, now, rdap_resultado, receita_info>>

\* Mutant: individual identifiers (11 digits) pass the gate too.
cnpj_gate_cpf_too(info) ==
    Truthy(info.cpf_cnpj) /\ Len(sanitize_cnpj(info.cpf_cnpj)) \in {11, CnpjLength}

\* Lines 188-190: is there an identifier, and has it 14 digits once sanitized?
cnpj_gate(info) ==
    Truthy(info.cpf_cnpj) /\ Len(sanitize_cnpj(info.cpf_cnpj)) = CnpjLength

\* Lines 188-190 and 202-205.
Gate ==
    /\ pc = "gate"
    /\ pc' = IF cnpj_gate(key_info) THEN "cnpj" ELSE "floor"
    /\ UNCHANGED <<csv_at_start, domains, cleaned_domains, dominios_existentes, csv_file, idx,
                   CONTADOR_SUCESSO, now, rdap_resultado, key_info, receita_info, trace>>

\* Line 191: consulta_cnpj(cnpj_sanitizado)
ConsultaCnpj ==
    /\ pc = "cnpj"
    /\ \E r \in ReceitaOutcomes, dur \in CallTimes :
          /\ receita_info' = r
          /\ now' = now + dur
          /\ trace' = Append(trace, Event("cnpj", dur))
    /\ pc' = "sleep_cnpj"
    /\ UNCHANGED <<csv_at_start, domains, cleaned_domains, dominios_existentes, csv_file, idx,
                   CONTADOR_SUCESSO, rdap_resultado, key_info>>

\* Mutant: the result of the tax-registry lookup is not tested for an error.
SleepCnpjNoErrorTest ==
    /\ pc = "sleep_cnpj"
    /\ now' = now + PostCallSleep
    /\ trace' = Append(trace, Event("sleep", PostCallSleep))
    /\ pc' = "save"
    /\ UNCHANGED <<csv_at_start, domains, cleaned_domains, dominios_existentes, csv_file, idx,
                   CONTADOR_SUCESSO, rdap_resultado, key_info, receita_info>>

\* Lines 192-193 and 200-201.
SleepCnpj ==
    /\ pc = "sleep_cnpj"
    /\ now' = now + PostCallSleep
    /\ trace' = Append(trace, Event("sleep", PostCallSleep))
    /\ pc' = IF HasError(receita_info) THEN "floor" ELSE "save"
    /\ UNCHANGED <<csv_at_start, domains, cleaned_domains, dominios_existentes, csv_file, idx,
                   CONTADOR_SUCESSO, rdap_resultado, key_info, receita_info>>

\* Mutant: the counter counts the calls of save_to_csv, not the writes.
SaveCountsAttempts ==
    /\ pc = "save"
    /\ LET res == save_to_csv(cleaned_domains[idx], key_info,
                              format_cnpj_info(receita_info), csv_file)
       IN  /\ csv_file' = res.file
           /\ CONTADOR_SUCESSO' = CONTADOR_SUCESSO + 1
           /\ trace' = Append(trace, Event(IF res.written THEN "saved" ELSE "duplicate", 0))
    /\ pc' = "floor"
    /\ UNCHANGED <<csv_at_start, domains, cleaned_domains, dominios_existentes, idx, now,
                   rdap_resultado, key_info, receita_info>>

\* Lines 194-199: format_cnpj_info, then save_to_csv (which counts the write).
Save ==
    /\ pc = "save"
    /\ LET res == save_to_csv(cleaned_domains[idx], key_info,
                              format_cnpj_info(receita_info), csv_file)
       IN  /\ csv_file' = res.file
           /\ CONTADOR_SUCESSO' = IF res.written THEN CONTADOR_SUCESSO + 1
                                  ELSE CONTADOR_SUCESSO
           /\ trace' = Append(trace, Event(IF res.written THEN "saved" ELSE "duplicate", 0))
    /\ pc' = "floor"
    /\ UNCHANGED <<csv_at_start, domains, cleaned_domains, dominios_existentes, idx, now,
                   rdap_resultado, key_info, receita_info>>

\* Mutant: the whole floor is slept whatever time has passed.
tempo_espera_fixed(tempo_processamento) == ATRASO_BASE

\* max(0, ATRASO_BASE - tempo_processamento)
tempo_espera(tempo_processamento) ==
    IF ATRASO_BASE - tempo_processamento > 0 THEN ATRASO_BASE - tempo_processamento ELSE 0

\* Mutant: the first multiple of the interval is passed over.
pause_due_after_first(contador) == contador > PauseInterval /\ contador % PauseInterval = 0

\* Line 215
pause_due(contador) == contador > 0 /\ contador % PauseInterval = 0

\* Mutant: a pause that is due is taken ahead of the floor sleep.
FloorSleepAfterPause ==
    /\ pc = "floor"
    /\ LET pausa == IF pause_due(CONTADOR_SUCESSO) THEN ATRASO_PERSONALIZADO * 60 ELSE 0
       IN  /\ now' = now + pausa + tempo_espera(now + pausa)
           /\ trace' = (IF pausa > 0 THEN Append(trace, Event("pause", pausa)) ELSE trace)
                           \o <<Event("floor", tempo_espera(now + pausa))>>
    /\ pc' = "extended"
    /\ UNCHANGED <<csv_at_start, domains, cleaned_domains, dominios_existentes, csv_file, idx,
                   CONTADOR_SUCESSO, rdap_resultado, key_info, receita_info>>

\* Lines 210-212: sleep what is left of the minute.
FloorSleep ==
    /\ pc = "floor"
    /\ now' = now + tempo_espera(now)
    /\ trace' = Append(trace, Event("floor", tempo_espera(now)))
    /\ pc' = "extended"
    /\ UNCHANGED <<csv_at_start, domains, cleaned_domains, dominios_existentes, csv_file, idx,
                   CONTADOR_SUCESSO, rdap_resultado, key_info, receita_info>>

\* Lines 215-217, and the for loop moves on; the locals of the iteration are dead.
ExtendedPause ==
    /\ pc = "extended"
    /\ IF pause_due(CONTADOR_SUCESSO)
       THEN /\ now' = now + ATRASO_PERSONALIZADO * 60
            /\ trace' = Append(trace, Event("pause", ATRASO_PERSONALIZADO * 60))
       ELSE UNCHANGED <<now, trace>>
    /\ idx' = idx + 1
    /\ pc' = "loop"
    /\ rdap_resultado' = Unset
    /\ key_info' = Unset
    /\ receita_info' = Unset
    /\ UNCHANGED <<csv_at_start, domains, cleaned_domains, dominios_existentes, csv_file,
                   CONTADOR_SUCESSO>>

\* The for loop is exhausted: main returns.
Finish ==
    /\ pc = "loop"
    /\ idx > Len(cleaned_domains)
    /\ pc' = "done"
    /\ UNCHANGED <<csv_at_start, domains, cleaned_domains, dominios_existentes, csv_file, idx,
                   CONTADOR_SUCESSO, now, rdap_resultado, key_info, receita_info, trace>>

Next ==
    \/ ReadInputs
    \/ Skip
    \/ Begin
    \/ ConsultaRdap
    \/ SleepRdap
    \/ Extract
    \/ Gate
    \/ ConsultaCnpj
    \/ SleepCnpj
    \/ Save
    \/ FloorSleep
    \/ ExtendedPause
    \/ Finish

Spec == Init /\ [][Next]_vars

(***************************************************************************)
(* Observations the properties are stated with                             *)
(***************************************************************************)
Rows == csv_file.rows

\* The texts of the Domain column of a file.
DomainsOf(file) == {file.rows[i]["Domain"] : i \in 1..Len(file.rows)}

Has(ev) == \E i \in 1..Len(trace) : trace[i].ev = ev

\* The iteration of the current domain is under way (line 178 was passed).
InIteration == pc \in {"rdap", "sleep_rdap", "extract", "gate", "cnpj", "sleep_cnpj",
                       "save", "floor", "extended"}

\* The for loop is at its head after an iteration that was not a skip.
AfterProcessed == pc = "loop" /\ trace # <<>> /\ trace[1].ev # "skip"

(***************************************************************************)
(* C1: the output table never holds two rows with the same Domain, and a   *)
(* save of a domain that is in the table as persisted at that moment       *)
(* (also by a row of the same run) writes nothing and returns false.       *)
(***************************************************************************)
NoDuplicateDomain ==
    \A i, j \in 1..Len(Rows) : i # j => Rows[i]["Domain"] # Rows[j]["Domain"]

DuplicateSaveIsNoOp ==
    (pc = "save" /\ cleaned_domains[idx] \in DomainsOf(csv_file))
        => (csv_file' = csv_file /\ trace' = Append(trace, Event("duplicate", 0)))

C1_NoDuplicateDomain == [](NoDuplicateDomain) /\ [][DuplicateSaveIsNoOp]_vars

\* A save met a row that this run itself had written.
C1_Witness ==
    /\ pc = "floor"
    /\ Has("duplicate")
    /\ cleaned_domains[idx] \notin DomainsOf(csv_at_start)
    /\ cleaned_domains[idx] \in DomainsOf(csv_file)

(***************************************************************************)
(* C2: a domain that is in the table when the run starts is skipped with   *)
(* no lookup and no write; a run whose cleaned domains are all in the      *)
(* table makes no call and leaves the table as it was.                     *)
(***************************************************************************)
StoredDomainIsSkipped ==
    (pc = "loop" /\ idx <= Len(cleaned_domains)
        /\ cleaned_domains[idx] \in DomainsOf(csv_at_start))
        => /\ pc' = "loop"
           /\ idx' = idx + 1
           /\ csv_file' = csv_file
           /\ trace' = <<Event("skip", 0)>>

AllStored ==
    \A i \in 1..Len(cleaned_domains) : cleaned_domains[i] \in DomainsOf(csv_at_start)

AllStoredRunIsIdle ==
    (pc # "start" /\ AllStored)
        => /\ pc \in {"loop", "done"}
           /\ csv_file = csv_at_start
           /\ ~Has("rdap") /\ ~Has("cnpj")
           /\ CONTADOR_SUCESSO = 0

C2_ResumptionIdempotent == [](AllStoredRunIsIdle) /\ [][StoredDomainIsSkipped]_vars

\* A run over a list of several domains, all stored, has ended.
C2_Witness ==
    pc = "done" /\ Len(cleaned_domains) >= 2 /\ AllStored /\ trace = <<Event("skip", 0)>>

(***************************************************************************)
(* C3: whatever the services return for a domain and whatever outcome the  *)
(* domain reaches, main goes on to the next domain: the run ends only      *)
(* after every cleaned domain was skipped or processed, and the rows       *)
(* stored earlier are unchanged.                                           *)
(***************************************************************************)
RunEnded == pc \in {"done", "crashed"}

RunEndsOnlyAfterLastDomain == RunEnded => idx > Len(cleaned_domains)

EarlierRowsKept ==
    /\ Len(csv_file'.rows) >= Len(Rows)
    /\ \A i \in 1..Len(Rows) : csv_file'.rows[i] = Rows[i]

C3_FailureIsolation == [](RunEndsOnlyAfterLastDomain) /\ [][EarlierRowsKept]_vars

(***************************************************************************)
(* C4: a row for a domain is written only in an iteration in which the     *)
(* registry lookup succeeded, the identifier sanitized to 14 digits and    *)
(* the tax-registry lookup succeeded; the tax-registry lookup is issued    *)
(* only after a successful registry lookup of the same domain.             *)
(***************************************************************************)
DigitChars == {"0", "1", "2", "3", "4", "5", "6", "7", "8", "9"}
DigitCount(s) == Cardinality({i \in 1..Len(s) : s[i] \in DigitChars})

SaveOnlyAfterBothLookups ==
    (InIteration /\ (pc = "save" \/ Has("saved") \/ Has("duplicate")))
        => /\ Has("rdap") /\ ~HasError(rdap_resultado)
           /\ Has("extract") /\ DigitCount(key_info.cpf_cnpj) = 14
           /\ Has("cnpj") /\ ~HasError(receita_info)

TaxLookupOnlyAfterRegistry ==
    (InIteration /\ (pc = "cnpj" \/ Has("cnpj")))
        => trace[1].ev = "rdap" /\ ~HasError(rdap_resultado)

WriteOnlyBySave ==
    csv_file' # csv_file
        => /\ pc = "save"
           /\ trace' = Append(trace, Event("saved", 0))
           /\ csv_file'.rows[Len(csv_file'.rows)]["Domain"] = cleaned_domains[idx]

C4_WriteOnlyAfterBothLookups ==
    [](SaveOnlyAfterBothLookups /\ TaxLookupOnlyAfterRegistry) /\ [][WriteOnlyBySave]_vars

C4_Witness == pc = "floor" /\ Has("saved") /\ csv_file # csv_at_start

(***************************************************************************)
(* C5: after a successful registry lookup the tax-registry lookup is       *)
(* issued exactly when the extracted identifier has 14 digits; none is     *)
(* issued for an 11-digit identifier nor for "Not available".              *)
(***************************************************************************)
C5_IdentifierGating ==
    /\ (InIteration /\ (pc = "cnpj" \/ Has("cnpj")))
           => DigitCount(key_info.cpf_cnpj) = 14
    /\ (pc \in {"floor", "extended"} /\ Has("extract"))
           => (Has("cnpj") <=> DigitCount(key_info.cpf_cnpj) = 14)
    /\ (pc \in {"floor", "extended"} /\ Has("extract")
            /\ (DigitCount(key_info.cpf_cnpj) = 11 \/ key_info.cpf_cnpj = NotAvailable))
           => ~Has("cnpj")

\* An iteration ended on an 11-digit identifier.
C5_Witness ==
    /\ pc = "floor" /\ Has("extract")
    /\ DigitCount(key_info.cpf_cnpj) = 11
    /\ ~Has("cnpj")

(***************************************************************************)
(* C6: the store is append-only: a save adds one row for the domain at     *)
(* the end and leaves the earlier rows as they were, or leaves the file    *)
(* as it was; no other step changes the file.                              *)
(***************************************************************************)
AppendedOneRow ==
    /\ pc = "save"
    /\ csv_file'.exists
    /\ Len(csv_file'.rows) = Len(Rows) + 1
    /\ \A i \in 1..Len(Rows) : csv_file'.rows[i] = Rows[i]
    /\ csv_file'.rows[Len(Rows) + 1]["Domain"] = cleaned_domains[idx]
    /\ trace' = Append(trace, Event("saved", 0))

C6_AppendOnly == [][csv_file' = csv_file \/ AppendedOneRow]_vars

(***************************************************************************)
(* C7: every processed domain ends with a floor sleep of exactly           *)
(* max(0, 60 - elapsed) seconds, elapsed being the time since its          *)
(* processing began, delays included; the next domain starts no sooner     *)
(* than 60 seconds after it.                                               *)
(***************************************************************************)
RECURSIVE SumN(_)
SumN(events) == IF events = <<>> THEN 0 ELSE Head(events).n + SumN(Tail(events))

ElapsedBefore(k) == SumN(SubSeq(trace, 1, k - 1))

FloorIsShortfall ==
    \A k \in 1..Len(trace) :
        trace[k].ev = "floor"
            => /\ ElapsedBefore(k) < 60 => trace[k].n = 60 - ElapsedBefore(k)
               /\ ElapsedBefore(k) >= 60 => trace[k].n = 0

ClockIsTrace == InIteration => now = SumN(trace)

FloorAlwaysTaken ==
    (pc = "extended" \/ AfterProcessed)
        => /\ Cardinality({k \in 1..Len(trace) : trace[k].ev = "floor"}) = 1
           /\ now >= 60

C7_PacingFloor == FloorIsShortfall /\ ClockIsTrace /\ FloorAlwaysTaken

\* A stored domain whose calls were fast slept the shortfall.
C7_Witness ==
    /\ AfterProcessed /\ Has("saved")
    /\ \E k \in 1..Len(trace) : trace[k].ev = "floor" /\ trace[k].n = 40

(***************************************************************************)
(* C8: when a successful write brings the count of successful writes to a  *)
(* multiple of 5, a pause of 300 seconds is taken before the next domain   *)
(* begins; the counter is never reset during the run.                      *)
(***************************************************************************)
PauseAfterFifthWrite ==
    (AfterProcessed /\ Has("saved") /\ CONTADOR_SUCESSO % 5 = 0)
        => trace[Len(trace)] = Event("pause", 300)

CounterNeverReset == CONTADOR_SUCESSO' >= CONTADOR_SUCESSO

C8_ExtendedPause == [](PauseAfterFifthWrite) /\ [][CounterNeverReset]_vars

C8_Witness == AfterProcessed /\ Has("saved") /\ CONTADOR_SUCESSO = 5

(***************************************************************************)
(* C9: each of the two lookups is followed at once by a delay of 10        *)
(* seconds, whether it succeeded or failed, before any other step.         *)
(***************************************************************************)
C9_PostCallDelay ==
    /\ \A i \in 1..Len(trace) :
          trace[i].ev \in {"rdap", "cnpj"}
              => IF i < Len(trace)
                 THEN trace[i + 1] = Event("sleep", 10)
                 ELSE pc \in {"sleep_rdap", "sleep_cnpj"}
    /\ ClockIsTrace

\* A failed registry lookup was followed by the delay.
C9_Witness ==
    /\ pc = "floor" /\ HasError(rdap_resultado)
    /\ Len(trace) = 2 /\ trace[1].ev = "rdap" /\ trace[2] = Event("sleep", 10)

(***************************************************************************)
(* The normalizer alone: clean_domains applied to lists of raw strings     *)
(***************************************************************************)
MaxRaw == 2

RawUpper == <<"H","T","T","P",":","/","/","W","W","W",".","E","x","a","m","p","l","e",".","C","O","M",".","B","R","/">>
RawSub == <<"s","u","b",".","e","x","a","m","p","l","e",".","c","o","m",".","b","r">>
RawDeep == <<"a",".","b",".","e","x","a","m","p","l","e",".","c","o","m",".","b","r">>
RawNotBr == <<"e","x","a","m","p","l","e",".","c","o","m">>
RawBrInside == <<"e","x","a","m","p","l","e",".","b","r",".","c","o","m">>
RawSubBr == <<"s","u","b",".","e","x","a","m","p","l","e",".","b","r">>
RawSpaced == <<" ","h","t","t","p","s",":","/","/","w","w","w",".","e","x","a","m","p","l","e",".","c","o","m",".","b","r","/"," ">>
RawPath == <<"e","x","a","m","p","l","e",".","c","o","m",".","b","r","/","p","a","t","h">>
RawInnerWww == <<"x",".","w","w","w",".","a",".","b","r">>
RawWww == <<"w","w","w",".","e","x","a","m","p","l","e",".","c","o","m",".","b","r">>
RawBare == <<"b","r">>
RawWwwBr == <<"w","w","w",".","b","r">>

NormPool == {RawUpper, RawSub, RawDeep, RawNotBr, RawBrInside, RawSubBr, RawSpaced,
             RawPath, RawInnerWww, RawWww, RawBare, RawWwwBr}

InitNorm ==
    /\ domains \in UNION {[1..n -> NormPool] : n \in 0..MaxRaw}
    /\ csv_file = NoFile
    /\ cleaned_domains = <<>>
    /\ dominios_existentes = {}
    /\ idx = 0
    /\ pc = "start"
    /\ CONTADOR_SUCESSO = 0
    /\ now = 0
    /\ rdap_resultado = Unset
    /\ key_info = Unset
    /\ receita_info = Unset
    /\ trace = <<>>
    /\ csv_at_start = csv_file

NextNorm == ReadInputs

SpecNorm == InitNorm /\ [][NextNorm]_vars

(***************************************************************************)
(* C10: "HTTP://WWW.Example.COM.BR/" normalizes to "example.com.br";       *)
(* "sub.example.com.br" and "a.b.example.com.br" are cut to their last     *)
(* three labels, "example.com.br"; a host that does not end in ".br" is    *)
(* not in the cleaned list.                                                *)
(***************************************************************************)
Apex == <<"e","x","a","m","p","l","e",".","c","o","m",".","b","r">>

C10Examples == {RawUpper, RawSub, RawDeep, RawNotBr, RawBrInside}

\* What each example contributes to the cleaned list.
NormalizedExample(raw) ==
    CASE raw = RawUpper -> <<Apex>>
      [] raw = RawSub -> <<Apex>>
      [] raw = RawDeep -> <<Apex>>
      [] OTHER -> <<>>

RECURSIVE NormalizedExamples(_)
NormalizedExamples(raws) ==
    IF raws = <<>> THEN <<>>
    ELSE NormalizedExample(Head(raws)) \o NormalizedExamples(Tail(raws))

OnlyExamples == \A i \in 1..Len(domains) : domains[i] \in C10Examples

C10_Normalization ==
    /\ (pc = "loop" /\ OnlyExamples) => cleaned_domains = NormalizedExamples(domains)
    /\ \A i \in 1..Len(cleaned_domains) :
          /\ Len(cleaned_domains[i]) >= 3
          /\ SubSeq(cleaned_domains[i], Len(cleaned_domains[i]) - 2,
                    Len(cleaned_domains[i])) = <<".", "b", "r">>

\* A deep host was cut to the apex and a foreign host was dropped.
C10_Witness == pc = "loop" /\ domains = <<RawDeep, RawNotBr>> /\ cleaned_domains = <<Apex>>

\* The claim as first stated: one label is kept before the apex.
NormalizedAsStated(raw) ==
    CASE raw = RawUpper -> <<Apex>>
      [] raw = RawSub -> <<<<"s","u","b",".","e","x","a","m","p","l","e",".","c","o","m",".","b","r">>>>
      [] raw = RawDeep -> <<<<"b",".","e","x","a","m","p","l","e",".","c","o","m",".","b","r">>>>
      [] OTHER -> <<>>

RECURSIVE NormalizedAllAsStated(_)
NormalizedAllAsStated(raws) ==
    IF raws = <<>> THEN <<>>
    ELSE NormalizedAsStated(Head(raws)) \o NormalizedAllAsStated(Tail(raws))

C10_AsStated ==
    (pc = "loop" /\ OnlyExamples) => cleaned_domains = NormalizedAllAsStated(domains)

(***************************************************************************)
(* C11: every element of the cleaned list is lower-case, carries no        *)
(* scheme, has no leading "www." prefix and no trailing slash, has at most *)
(* three labels and ends with ".br"; so also for the raw "x.www.a.br".     *)
(***************************************************************************)
WwwPrefix == <<"w","w","w",".">>

LabelCount(domain) == Len(split_dot(domain))

HasScheme(domain) ==
    \E i \in 1..Len(domain) : i + 2 <= Len(domain) /\ SubSeq(domain, i, i + 2) = <<":","/","/">>

DomainInvariant(domain) ==
    /\ \A i \in 1..Len(domain) : \A j \in 1..Len(UpperCase) : domain[i] # UpperCase[j]
    /\ ~HasScheme(domain)
    /\ ~(Len(domain) >= 4 /\ SubSeq(domain, 1, 4) = WwwPrefix)
    /\ domain # <<>> /\ domain[Len(domain)] # "/"
    /\ LabelCount(domain) <= 3
    /\ Len(domain) >= 3 /\ SubSeq(domain, Len(domain) - 2, Len(domain)) = <<".","b","r">>

C11_DomainInvariant ==
    \A i \in 1..Len(cleaned_domains) : DomainInvariant(cleaned_domains[i])

(***************************************************************************)
(* C19: the cleaned list holds each Domain at most once, whatever raw      *)
(* strings it came from ("www.example.com.br" and "example.com.br" give    *)
(* one entry), so that a run looks each Domain up at most once.            *)
(***************************************************************************)
C19_NormalizerDedups ==
    \A i, j \in 1..Len(cleaned_domains) :
        i # j => cleaned_domains[i] # cleaned_domains[j]

(***************************************************************************)
(* The extractor alone: extract_key_info applied to registry records       *)
(***************************************************************************)
MaxEntities == 2

CnpjTextB == <<"9","8",".","7","6","5",".","4","3","2","/","0","0","0","1","-","1","0">>
CnpjTextC == <<"1","1",".","2","2","2",".","3","3","3","/","0","0","0","1","-","4","4">>
RgText == <<"4","4","5","5","6">>
EmailT == <<"t","@","x",".","b","r">>
EmailU == <<"u","@","y",".","b","r">>
EmailV == <<"v","@","z",".","b","r">>

SubWithEmail(email) == [roles |-> <<"technical">>,
                        vcardArray |-> Card(<<VersionRow, EmailRow(email)>>)]

\* A registrant with a name, one identifier and one contact with an email.
EntPlain == Registrant("cnpj", CnpjText)
\* A registrant with a CPF, then a CNPJ, then an identifier of another type.
EntTwoIds ==
    [roles |-> <<"registrant">>,
     vcardArray |-> Card(<<VersionRow, FnRow(<<"B","e","t","a">>)>>),
     publicIds |-> <<[type |-> "cpf", identifier |-> CpfText],
                     [type |-> "cnpj", identifier |-> CnpjTextB],
                     [type |-> "rg", identifier |-> RgText]>>]
\* A registrant whose only identifier is of another type.
EntOtherId ==
    [roles |-> <<"registrant">>,
     vcardArray |-> Card(<<VersionRow, FnRow(<<"G","a","m","a">>)>>),
     publicIds |-> <<[type |-> "rg", identifier |-> RgText]>>]
\* A technical entity with an identifier of its own and two contacts with emails.
EntTechnical ==
    [roles |-> <<"technical">>,
     publicIds |-> <<[type |-> "cnpj", identifier |-> CnpjTextC]>>,
     entities |-> <<SubWithEmail(EmailU), SubWithEmail(EmailV)>>]
\* A registrant whose card holds only the version row; its contact's card holds
\* two email rows, and a second contact's card holds none.
EntCardNoFn ==
    [roles |-> <<"registrant">>,
     vcardArray |-> Card(<<VersionRow>>),
     entities |-> <<[vcardArray |-> Card(<<VersionRow, EmailRow(EmailV), EmailRow(EmailT)>>)],
                    [vcardArray |-> Card(<<VersionRow>>)]>>]
\* An entity with no role, no card, no identifier and no contact.
EntBare == [objectClassName |-> "entity"]
\* A registrant with a card of one component.
EntShortCard == [roles |-> <<"registrant">>, vcardArray |-> <<"vcard">>]
\* A registrant with no card.
EntNoCard == [roles |-> <<"registrant">>,
              publicIds |-> <<[type |-> "cnpj", identifier |-> CnpjText]>>]
\* A registrant whose identifier carries no type.
EntNoType ==
    [roles |-> <<"registrant">>,
     vcardArray |-> Card(<<VersionRow, FnRow(<<"D","e","l","t","a">>)>>),
     publicIds |-> <<[identifier |-> CnpjText]>>]
\* An entity whose contact has no card.
EntSubNoCard == [roles |-> <<"administrative">>,
                 entities |-> <<[roles |-> <<"technical">>]>>]

EntityPool == {EntPlain, EntTwoIds, EntOtherId, EntTechnical, EntCardNoFn, EntBare,
               EntShortCard, EntNoCard, EntNoType, EntSubNoCard}

\* A registry answer with no 'entities' key.
RdapAbsent == [handle |-> "absent"]

RecordPool ==
    {RdapError, RdapAbsent}
        \cup {[entities |-> es] : es \in UNION {[1..n -> EntityPool] : n \in 0..MaxEntities}}

InitExtract ==
    /\ rdap_resultado \in RecordPool
    /\ key_info = Unset
    /\ pc = "call"
    /\ domains = <<>>
    /\ csv_file = NoFile
    /\ cleaned_domains = <<>>
    /\ dominios_existentes = {}
    /\ idx = 0
    /\ CONTADOR_SUCESSO = 0
    /\ now = 0
    /\ receita_info = Unset
    /\ trace = <<>>
    /\ csv_at_start = csv_file

\* key_info = extract_key_info(rdap_resultado), returning or raising
ExtractCall ==
    /\ pc = "call"
    /\ key_info' = extract_key_info(rdap_resultado)
    /\ pc' = IF key_info'.raised = NoRaise THEN "returned" ELSE "raised"
    /\ UNCHANGED <<domains, cleaned_domains, dominios_existentes, csv_file, idx,
                   CONTADOR_SUCESSO, now, rdap_resultado, receita_info, trace,
                   csv_at_start>>

NextExtract == ExtractCall

SpecExtract == InitExtract /\ [][NextExtract]_vars

\* The call has ended, by a return or by an exception.
Called == pc \in {"returned", "raised"}

(***************************************************************************)
(* C12: for an error-tagged registry record the extractor returns "Error"  *)
(* in all three fields; for a non-error record whose entities list is      *)
(* empty or absent it returns "Not available" in all three fields.         *)
(***************************************************************************)
TextError == <<"E","r","r","o","r">>
TextNotAvailable == <<"N","o","t"," ","a","v","a","i","l","a","b","l","e">>

AllFields(text) ==
    /\ pc = "returned"
    /\ key_info.email_rdap = text /\ key_info.cpf_cnpj = text /\ key_info.name = text

NoEntities(record) ==
    "entities" \notin DOMAIN record \/ record.entities = <<>>

C12_Sentinels ==
    Called =>
        /\ "error" \in DOMAIN rdap_resultado => AllFields(TextError)
        /\ ("error" \notin DOMAIN rdap_resultado /\ NoEntities(rdap_resultado))
               => AllFields(TextNotAvailable)

\* The extractor was called with the record of a failed lookup.
C12_Witness == rdap_resultado = RdapError /\ AllFields(TextError)

(***************************************************************************)
(* C16: the returned email is the fourth element of the first "email" row  *)
(* met in document order over the contacts' cards; an email row of a later *)
(* contact or a later entity never replaces an email already found.        *)
(***************************************************************************)
RECURSIVE Flatten(_)
Flatten(seqs) == IF seqs = <<>> THEN <<>> ELSE Head(seqs) \o Flatten(Tail(seqs))

Field(d, k) == IF k \in DOMAIN d THEN d[k] ELSE <<>>

\* The rows of the cards of an entity's contacts, in document order.
ContactRows(entity) ==
    Flatten([j \in 1..Len(Field(entity, "entities")) |->
                Field(entity, "entities")[j].vcardArray[2]])

IsEmailRow(row) == row[1] = "email"

EmailRows(record) ==
    SelectSeq(Flatten([i \in 1..Len(Field(record, "entities")) |->
                          ContactRows(record.entities[i])]),
              IsEmailRow)

FirstEmail(record) ==
    IF EmailRows(record) = <<>> THEN TextNotAvailable ELSE EmailRows(record)[1][4]

C16_FirstEmailWins ==
    (pc = "returned" /\ "error" \notin DOMAIN rdap_resultado)
        => key_info.email_rdap = FirstEmail(rdap_resultado)

(***************************************************************************)
(* C17: the returned tax identifier is the identifier of the last          *)
(* public-id entry typed "cpf" or "cnpj", in document order, among the     *)
(* entities with the registrant role; identifiers of other entities and of *)
(* other types are never returned.                                         *)
(***************************************************************************)
IsRegistrant(entity) ==
    \E i \in 1..Len(Field(entity, "roles")) : entity.roles[i] = "registrant"

IsTaxId(public_id) == public_id.type = "cpf" \/ public_id.type = "cnpj"

RegistrantTaxIds(record) ==
    SelectSeq(Flatten([i \in 1..Len(Field(record, "entities")) |->
                          IF IsRegistrant(record.entities[i])
                          THEN Field(record.entities[i], "publicIds") ELSE <<>>]),
              IsTaxId)

LastIdentifier(record) ==
    IF RegistrantTaxIds(record) = <<>> THEN TextNotAvailable
    ELSE RegistrantTaxIds(record)[Len(RegistrantTaxIds(record))].identifier

C17_LastIdentifierWins ==
    (pc = "returned" /\ "error" \notin DOMAIN rdap_resultado)
        => key_info.cpf_cnpj = LastIdentifier(rdap_resultado)

\* A registrant with a CPF, a CNPJ and another identifier, then a technical
\* entity with a CNPJ of its own: the registrant's CNPJ was returned.
C17_Witness ==
    /\ pc = "returned"
    /\ rdap_resultado = [entities |-> <<EntTwoIds, EntTechnical>>]
    /\ key_info.cpf_cnpj = CnpjTextB

(***************************************************************************)
(* C18: on every non-error record the extractor returns: a registrant with *)
(* no card or a card of fewer than two components, a contact with no card, *)
(* an identifier entry with no type all yield "Not available" fields, and  *)
(* no call ends in an exception.                                           *)
(***************************************************************************)
C18_ExtractorTotal ==
    (Called /\ "error" \notin DOMAIN rdap_resultado) => pc = "returned"

(***************************************************************************)
(* The writer alone: one call of save_to_csv on tax-registry records       *)
(***************************************************************************)
MaxPartners == 3

PartnerAna == Partner(<<"A","N","A">>, <<"S","o","c","i","o">>)
PartnerBia == Partner(<<"B","I","A">>, <<"D","i","r","e","t","o","r">>)
PartnerCaio == Partner(<<"C","A","I","O">>, <<"P","r","e","s","i","d","e","n","t","e">>)
\* A partner with no qualification.
PartnerDuda == [nome |-> <<"D","U","D","A">>]

PartnerPool == {PartnerAna, PartnerBia, PartnerCaio, PartnerDuda}

\* A tax-registry answer with no 'qsa' key.
ReceitaNoQsa == [nome |-> <<"G","A","M","A"," ","M","E">>]

CompanyPool ==
    {ReceitaNoQsa}
        \cup {[nome |-> <<"A","C","M","E"," ","S","A">>, qsa |-> qsa] :
                 qsa \in UNION {[1..n -> PartnerPool] : n \in 0..MaxPartners}}

SaveDomains == {<<"a",".","c","o","m",".","b","r">>, <<"d",".","b","r">>}

InitSave ==
    /\ \E dominio \in SaveDomains : cleaned_domains = <<dominio>> /\ domains = <<dominio>>
    /\ idx = 1
    /\ rdap_resultado = RdapCompany
    /\ key_info = KeyInfoCompany
    /\ receita_info \in CompanyPool
    /\ csv_file \in {NoFile, FileA}
    /\ csv_at_start = csv_file
    /\ dominios_existentes = {}
    /\ pc = "save"
    /\ CONTADOR_SUCESSO = 0
    /\ now = 0
    /\ trace = <<>>

NextSave == Save

SpecSave == InitSave /\ [][NextSave]_vars

(***************************************************************************)
(* C13: in a written row, Partner 1 Name and Qualification come from the   *)
(* first entry of the partner list when it has one, Partner 2 Name and     *)
(* Qualification from the second when it has two; no later entry is used,  *)
(* and a partner field with no entry to come from is "Not available".      *)
(***************************************************************************)
WrittenRow == csv_file.rows[Len(csv_file.rows)]

EntryField(qsa, k, key) ==
    IF Len(qsa) >= k /\ key \in DOMAIN qsa[k] THEN qsa[k][key] ELSE TextNotAvailable

C13_PartnerProjection ==
    (pc = "floor" /\ trace # <<>> /\ trace[Len(trace)].ev = "saved")
        => LET qsa == Field(receita_info, "qsa")
           IN  /\ WrittenRow["Partner 1 Name"] = EntryField(qsa, 1, "nome")
               /\ WrittenRow["Partner 1 Qualification"] = EntryField(qsa, 1, "qual")
               /\ WrittenRow["Partner 2 Name"] = EntryField(qsa, 2, "nome")
               /\ WrittenRow["Partner 2 Qualification"] = EntryField(qsa, 2, "qual")

\* Three partners, the second without a qualification: the row names the
\* first two.
C13_Witness ==
    /\ pc = "floor" /\ trace # <<>> /\ trace[Len(trace)].ev = "saved"
    /\ "qsa" \in DOMAIN receita_info
    /\ receita_info.qsa = <<PartnerCaio, PartnerDuda, PartnerAna>>
    /\ WrittenRow["Partner 1 Name"] = <<"C","A","I","O">>
    /\ WrittenRow["Partner 2 Name"] = <<"D","U","D","A">>
    /\ WrittenRow["Partner 2 Qualification"] = TextNotAvailable

(***************************************************************************)
(* C14: an extended pause is taken only at the end of an iteration in      *)
(* which a row was written; an iteration that ends in a registry error, a  *)
(* missing or invalid identifier, a tax-registry error or a duplicate      *)
(* takes none (so that a run pauses once per five writes).                 *)
(***************************************************************************)
C14_PauseOnlyAfterWrite == Has("pause") => Has("saved")

(***************************************************************************)
(* C15: the extended pause is the last step of the iteration: the floor    *)
(* sleep follows the write at once, and the pause of 300 seconds follows   *)
(* the floor sleep, before the next domain begins.                         *)
(***************************************************************************)
PauseFollowsFloor ==
    \A k \in 1..Len(trace) :
        trace[k].ev = "pause"
            => /\ k = Len(trace) /\ pc \in {"loop", "done"}
               /\ trace[k].n = 300
               /\ k > 1 /\ trace[k - 1].ev = "floor"

FloorFollowsWrite ==
    \A k \in 1..Len(trace) :
        trace[k].ev = "saved"
            => IF k < Len(trace) THEN trace[k + 1].ev = "floor" ELSE pc = "floor"

C15_PauseAfterFloor == PauseFollowsFloor /\ FloorFollowsWrite

\* The fifth write of a run, then the floor sleep, then the pause.
C15_Witness ==
    /\ pc = "loop" /\ Len(trace) >= 3 /\ CONTADOR_SUCESSO = 5
    /\ trace[Len(trace) - 2].ev = "saved"
    /\ trace[Len(trace) - 1].ev = "floor"
    /\ trace[Len(trace)] = Event("pause", 300)

\* The claim as first stated: the pause comes right after the write and the
\* floor sleep after the pause.
C15_PauseBeforeFloor ==
    (AfterProcessed /\ Has("saved") /\ Has("pause"))
        => \E i \in 1..Len(trace) :
              /\ trace[i].ev = "saved"
              /\ i < Len(trace) /\ trace[i + 1].ev = "pause"
              /\ \E j \in (i + 2)..Len(trace) : trace[j].ev = "floor"

(***************************************************************************)
(* C20: the success counter is the number of rows this run has appended:   *)
(* it starts at 0, grows by one exactly when save_to_csv appends a row and *)
(* returns true, stays as it is when save_to_csv returns false and on      *)
(* every failure path, and never decreases.                                *)
(***************************************************************************)
CounterIsRowsAppended ==
    /\ CONTADOR_SUCESSO = Len(Rows) - Len(csv_at_start.rows)
    /\ pc = "start" => CONTADOR_SUCESSO = 0

CounterStep ==
    IF pc = "save" /\ trace' = Append(trace, Event("saved", 0))
    THEN /\ CONTADOR_SUCESSO' = CONTADOR_SUCESSO + 1
         /\ Len(csv_file'.rows) = Len(Rows) + 1
    ELSE /\ CONTADOR_SUCESSO' = CONTADOR_SUCESSO
         /\ Len(csv_file'.rows) = Len(Rows)

C20_SuccessCounter == [](CounterIsRowsAppended) /\ [][CounterStep]_vars

\* Five rows were written, then a duplicate was rejected: the counter is 5.
C20_Witness ==
    /\ pc = "floor" /\ Has("duplicate")
    /\ CONTADOR_SUCESSO = 5 /\ Len(Rows) = Len(csv_at_start.rows) + 5

====
